---- MODULE Spec2Model ----
(***************************************************************************)
(* Deployment reconciler of mrdibre/test-deploy-preview-backend.           *)
(*                                                                         *)
(* Two implementations of one procedure are modelled side by side:         *)
(*   "ts"  src/vercel-deploy.ts  (Vercel SDK, async/await, process.exit)   *)
(*   "sh"  src/vercel.sh         (bash, curl, jq)                          *)
(* A run validates its configuration, lists the deployments of the         *)
(* project, lists its environment variables, creates or updates            *)
(* VITE_API_URL and then redeploys the selected deployment or creates a    *)
(* new one.  Every remote call is modelled in two steps (the request is    *)
(* issued, the response comes back) so that runs of several CI jobs        *)
(* interleave at the points where the code awaits the platform.            *)
(*                                                                         *)
(* Text is a sequence of one-character strings, so that toLowerCase() and  *)
(* includes() are computed rather than assumed.  Identifiers handed from   *)
(* one step to the next are sequences of output lines: the TypeScript      *)
(* code hands over <<uid>> or <<>> (null), the shell code hands over       *)
(* whatever its command substitution captured.                             *)
(***************************************************************************)
EXTENDS Integers, Sequences, FiniteSets, TLC

\* ---------------------------------------------------------------- bounds
MaxDeployments == 2
MaxPlatformList == 1
MaxEnvVars == 3

\* two CI jobs running the reconciler against the same project
Runs == {"job_a", "job_b"}
Impls == {"ts", "sh"}

\* ------------------------------------------------------------------ text
NoText == <<>>

LowerChar(c) ==
  CASE c = "A" -> "a"
    [] c = "B" -> "b"
    [] OTHER -> c

\* String.prototype.toLowerCase
ToLowerCase(s) == [i \in 1..Len(s) |-> LowerChar(s[i])]

RECURSIVE StartsWithAt(_, _, _, _)
StartsWithAt(s, t, pos, k) ==
  IF k > Len(t) THEN TRUE
  ELSE IF pos + k - 1 > Len(s) THEN FALSE
  ELSE IF s[pos + k - 1] # t[k] THEN FALSE
  ELSE StartsWithAt(s, t, pos, k + 1)

RECURSIVE IncludesFrom(_, _, _)
IncludesFrom(s, t, pos) ==
  IF pos + Len(t) - 1 > Len(s) THEN FALSE
  ELSE IF StartsWithAt(s, t, pos, 1) THEN TRUE
  ELSE IncludesFrom(s, t, pos + 1)

\* String.prototype.includes
Includes(s, t) == IncludesFrom(s, t, 1)

\* ------------------------------------------------- configuration inputs
\* process.env[NAME]: unset, or set to a (possibly empty) text
Unset == [set |-> FALSE, val |-> NoText]
SetTo(v) == [set |-> TRUE, val |-> v]

requiredVars == <<"VERCEL_TOKEN", "VERCEL_PROJECT_ID", "VERCEL_ORG_ID", "FE_BRANCH">>

\* !process.env[varName]   /   [[ -z "${!var}" ]]
IsMissing(v) == ~v.set \/ v.val = NoText

validateEnvironmentIgnoringBranch(e) ==
  \A i \in 1..(Len(requiredVars) - 1) : ~IsMissing(e[requiredVars[i]])

\* TRUE when validation passes (error() is not reached)
validateEnvironment(e) ==
  \A i \in 1..Len(requiredVars) : ~IsMissing(e[requiredVars[i]])

\* `https://api.pr-${FE_BRANCH}.deploy-preview.mrdibre.com`
targetApiUrl(branch) == <<"https://api.pr-">> \o branch \o <<".deploy-preview.mrdibre.com">>

\* `pr-${branch}`
deploymentName(branch) == <<"p", "r", "-">> \o branch

getConfig(e) ==
  [token |-> e["VERCEL_TOKEN"].val,
   projectId |-> e["VERCEL_PROJECT_ID"].val,
   orgId |-> e["VERCEL_ORG_ID"].val,
   branch |-> e["FE_BRANCH"].val,
   targetApiUrl |-> targetApiUrl(e["FE_BRANCH"].val)]

\* ------------------------------------------------------------- platform
\* a deployment as listed by the platform; name and meta.githubCommitRef
\* are optional (NoText when absent)
Deployment(uid, name, ref, state) ==
  [uid |-> uid, name |-> name, ref |-> ref, state |-> state]

States == {"READY", "BUILDING", "ERROR"}
Uid(i) == "dpl_" \o ToString(i)

\* shapes (name, ref, state) get their uid from the position in the listing
WithUids(shapes) ==
  [i \in 1..Len(shapes) |->
     Deployment(Uid(i), shapes[i][1], shapes[i][2], shapes[i][3])]

SeqsUpTo(S, n) == UNION {[1..k -> S] : k \in 0..n}

EnvKey == "VITE_API_URL"
EnvVar(id, key, value) == [id |-> id, key |-> key, value |-> value]
EnvId(n) == "env_" \o ToString(n)

\* ------------------------------------------ step 1: select a deployment
\* deployment.meta?.githubCommitRef === branch ||
\* deployment.name?.toLowerCase().includes(branch.toLowerCase())
matchesBranch(d, branch) ==
  \/ (d.ref # NoText /\ d.ref = branch)
  \/ (d.name # NoText /\ Includes(ToLowerCase(d.name), ToLowerCase(branch)))

isActiveStateReadyOnly(d) == d.state = "READY"

\* deployment.state === 'READY' || deployment.state === 'BUILDING'
isActiveState(d) == d.state = "READY" \/ d.state = "BUILDING"

\* Array.prototype.find with the predicate of checkExistingDeployment:
\* the index of the first element that satisfies it, 0 when there is none
RECURSIVE FindDeployment(_, _, _)
FindDeployment(L, branch, i) ==
  IF i > Len(L) THEN 0
  ELSE IF matchesBranch(L[i], branch) /\ isActiveState(L[i]) THEN i
  ELSE FindDeployment(L, branch, i + 1)

\* existingDeployment?.uid || null   (<<>> stands for null)
checkExistingDeployment(L, branch) ==
  LET i == FindDeployment(L, branch, 1)
  IN IF i = 0 \/ L[i].uid = "" THEN NoText ELSE <<L[i].uid>>

\* log() of vercel.sh writes to standard output, so a command substitution
\* around a function that logs captures the log line as well
LogChecking == "[INFO] Checking for existing deployments..."
LogFetching == "[INFO] Fetching VITE_API_URL environment variable ID..."

\* jq: select(.meta.githubCommitRef == $branch or .name | test($branch)).
\* The pipe binds weakest, so test() receives the boolean value of
\* (.meta.githubCommitRef == $branch or .name): jq raises an error on the
\* first deployment and prints nothing; on an empty listing (or an empty
\* response of a failed curl) it prints nothing either.
jq_select_deployments(L, branch) == <<>>

\* head -1
head_1(lines) == IF lines = <<>> THEN <<>> ELSE <<lines[1]>>

\* $(check_existing_deployment): the log line, then the filtered uid
check_existing_deployment(L, branch) ==
  <<LogChecking>> \o head_1(jq_select_deployments(L, branch))

\* ----------------------------------- step 2: find the VITE_API_URL record
RECURSIVE FindEnv(_, _)
FindEnv(E, i) ==
  IF i > Len(E) THEN 0
  ELSE IF E[i].key = EnvKey THEN i
  ELSE FindEnv(E, i + 1)

\* viteApiUrlEnv?.id || null
getEnvVarId(E) ==
  LET i == FindEnv(E, 1)
  IN IF i = 0 \/ E[i].id = "" THEN NoText ELSE <<E[i].id>>

\* jq -r '.envs[]? | select(.key == "VITE_API_URL") | .id'
jq_select_env_ids(E) ==
  LET idx == {i \in 1..Len(E) : E[i].key = EnvKey}
      RECURSIVE Collect(_)
      Collect(i) ==
        IF i > Len(E) THEN <<>>
        ELSE (IF i \in idx THEN <<E[i].id>> ELSE <<>>) \o Collect(i + 1)
  IN Collect(1)

\* $(get_env_var_id): the log line, then the first matching id
get_env_var_id(E) == <<LogFetching>> \o head_1(jq_select_env_ids(E))

\* ----------------------------------------------------- failure policies
\* vercel-deploy.ts wraps every call in try/catch, so a rejected call is
\* seen.  vercel.sh tests $? after `local response=$(api_call ...)`: that
\* is the status of `local`, always 0, so a failed curl is never seen.
FailureSeen(i, ok) == i = "ts" /\ ~ok

errorOnlyLogs(continuation) == continuation

\* error(): logs and calls exit(1); the code after it never runs
error(continuation) == "exited"

mainNextSkipsUpsert(step) ==
  CASE step = "checkExistingDeployment" -> "getEnvVarId"
    [] step = "getEnvVarId" -> "deploy"
    [] step = "updateEnvVar" -> "deploy"

\* main: the step that follows a completed step
mainNext(step) ==
  CASE step = "checkExistingDeployment" -> "getEnvVarId"
    [] step = "getEnvVarId" -> "updateEnvVar"
    [] step = "updateEnvVar" -> "deploy"

updateEnvVarCatchContinues(i) == mainNext("updateEnvVar")

\* catch of updateEnvVar: error(...)
updateEnvVarCatch(i) == error(mainNext("updateEnvVar"))

createDeploymentCatchContinues(i) == "finish"

\* catch of createDeployment: error(...)
createDeploymentCatch(i) == error("finish")

redeployExistingCatchRetries(i) == "deploy"

\* catch of redeployExisting: warn, getConfig() again, createDeployment
redeployExistingCatch(i) == "createDeployment"

\* main: if (existingDeployment) / [[ -n "$existing_deployment" ]]
deployBranch(existing) == IF existing # NoText THEN "redeploy" ELSE "create"

\* ------------------------------------------------------------- requests
Request(op, id, name, project, ref, value) ==
  [op |-> op, id |-> id, name |-> name, project |-> project, ref |-> ref,
   value |-> value, status |-> "pending"]

ListDeploymentsRequest(cfg) ==
  Request("listDeployments", NoText, NoText, cfg.projectId, NoText, NoText)
ListEnvVarsRequest(cfg) ==
  Request("listEnvVars", NoText, NoText, cfg.projectId, NoText, NoText)
\* requestBody of createEnvironmentVariable / editEnvironmentVariable beside
\* its value: key: 'VITE_API_URL', type: 'plain', target: ['preview']
envVarBody == [key |-> EnvKey, type |-> "plain", target |-> <<"preview">>]

CreateEnvVarRequest(cfg) ==
  Request("createEnvVar", NoText, NoText, cfg.projectId, NoText, cfg.targetApiUrl)
    @@ envVarBody
UpdateEnvVarRequest(cfg, id) ==
  Request("updateEnvVar", id, NoText, cfg.projectId, NoText, cfg.targetApiUrl)
    @@ envVarBody
RedeployRequest(id) ==
  Request("redeploy", id, NoText, NoText, NoText, NoText)
CreateDeploymentRequest(cfg) ==
  Request("createDeployment", NoText, deploymentName(cfg.branch), cfg.projectId,
          cfg.branch, NoText)

\* ---------------------------------------------------------------- state
VARIABLES
  env,                \* process.env of the jobs: the four configuration inputs
  deployments,        \* platform: the deployments of the project, as listed
  envs,               \* platform: the environment variables of the project
  nextEnvId,          \* platform: number of the next environment variable
  pc,                 \* per run: where the run stands
  impl,               \* per run: "ts" or "sh"
  existingDeployment, \* per run: result of step 1
  envVarId,           \* per run: result of step 2
  envsSeen,           \* per run: the listing step 2 received
  calls,              \* per run: the remote requests issued, with their status
  logged,             \* per run: the messages written
  exitCode,           \* per run: -1 while running, then the exit status
  startedAfter,       \* per run: the runs that had ended when it started
  envs0,              \* history: the environment variables before any run
  sel                 \* the selection function applied to drawn inputs

runVars == <<pc, impl, existingDeployment, envVarId, envsSeen, calls, logged,
             exitCode, startedAfter>>
platformVars == <<deployments, envs, nextEnvId>>
vars == <<env, platformVars, runVars, envs0, sel>>

\* ------------------------------------------------------- initial states
TextInputs == {Unset, SetTo(NoText), SetTo(<<"x">>)}
Branches == {<<"a">>, <<"A", "b">>}
BranchInputs == {Unset, SetTo(NoText)} \cup {SetTo(b) : b \in Branches}

PlatformShapes ==
  { <<NoText, <<"a">>, "READY">>,
    <<<<"p", "r", "-", "a", "B">>, NoText, "BUILDING">>,
    <<NoText, <<"a">>, "ERROR">>,
    <<<<"x">>, <<"m">>, "READY">> }
PlatformListings == {WithUids(s) : s \in SeqsUpTo(PlatformShapes, MaxPlatformList)}

OldValue == <<"https://api.old">>
InitialEnvs ==
  { <<>>,
    <<EnvVar(EnvId(1), EnvKey, OldValue)>>,
    <<EnvVar(EnvId(1), "OTHER_KEY", OldValue)>>,
    <<EnvVar(EnvId(1), "OTHER_KEY", OldValue), EnvVar(EnvId(2), EnvKey, OldValue)>> }

SelIdle == [L |-> <<>>, branch |-> <<"a">>, impl |-> "ts", out |-> NoText, done |-> FALSE]

InitRuns ==
  /\ pc = [r \in Runs |-> "idle"]
  /\ impl = [r \in Runs |-> "ts"]
  /\ existingDeployment = [r \in Runs |-> NoText]
  /\ envVarId = [r \in Runs |-> NoText]
  /\ envsSeen = [r \in Runs |-> <<>>]
  /\ calls = [r \in Runs |-> <<>>]
  /\ logged = [r \in Runs |-> {}]
  /\ exitCode = [r \in Runs |-> -1]
  /\ startedAfter = [r \in Runs |-> {}]

Init ==
  /\ env \in [VERCEL_TOKEN : TextInputs, VERCEL_PROJECT_ID : TextInputs,
              VERCEL_ORG_ID : TextInputs, FE_BRANCH : BranchInputs]
  /\ deployments \in PlatformListings
  /\ envs \in InitialEnvs
  /\ nextEnvId = Len(envs) + 1
  /\ envs0 = envs
  /\ InitRuns
  /\ sel = SelIdle

\* -------------------------------------------------------------- helpers
Exit(r, code) ==
  /\ pc' = [pc EXCEPT ![r] = "exited"]
  /\ exitCode' = [exitCode EXCEPT ![r] = code]

\* move on to step `to`; "exited" is the exit(1) of error(), "finish" is
\* the end of main: the success message, then the process ends with 0
Goto(r, to, tags) ==
  IF to = "exited" THEN
    /\ Exit(r, 1)
    /\ logged' = [logged EXCEPT ![r] = @ \cup tags]
  ELSE IF to = "finish" THEN
    /\ Exit(r, 0)
    /\ logged' = [logged EXCEPT ![r] = @ \cup tags \cup {"info: completed successfully"}]
  ELSE
    /\ pc' = [pc EXCEPT ![r] = to]
    /\ logged' = [logged EXCEPT ![r] = @ \cup tags]
    /\ UNCHANGED exitCode

Issue(r, req) == calls' = [calls EXCEPT ![r] = Append(@, req)]

Settle(r, ok) ==
  calls' = [calls EXCEPT ![r][Len(calls[r])].status = IF ok THEN "ok" ELSE "failed"]

LastCall(r) == calls[r][Len(calls[r])]
Config == getConfig(env)

\* ---------------------------------------------------------- the actions
\* getConfig / validateEnvironment at the head of main; the first lines of
\* vercel.sh and the jq check at the head of its main
Main_Start(r) ==
  /\ pc[r] = "idle"
  /\ \E i \in Impls, jqInstalled \in BOOLEAN :
       /\ impl' = [impl EXCEPT ![r] = i]
       /\ IF ~validateEnvironment(env) THEN
            Goto(r, error("checkExistingDeployment"),
                 {"error: missing required environment variable"})
          ELSE IF i = "sh" /\ ~jqInstalled THEN
            Goto(r, error("checkExistingDeployment"), {"error: jq is required"})
          ELSE
            Goto(r, "checkExistingDeployment", {})
  /\ startedAfter' = [startedAfter EXCEPT ![r] = {q \in Runs : pc[q] = "exited"}]
  /\ UNCHANGED <<env, platformVars, existingDeployment, envVarId, envsSeen, calls, envs0, sel>>

CheckExistingDeployment_Call(r) ==
  /\ pc[r] = "checkExistingDeployment"
  /\ Issue(r, ListDeploymentsRequest(Config))
  /\ pc' = [pc EXCEPT ![r] = "awaitDeployments"]
  /\ UNCHANGED <<env, platformVars, impl, existingDeployment, envVarId, envsSeen,
                 logged, exitCode, startedAfter, envs0, sel>>

CheckExistingDeployment_Return(r) ==
  /\ pc[r] = "awaitDeployments"
  /\ \E ok \in BOOLEAN :
       /\ Settle(r, ok)
       /\ IF FailureSeen(impl[r], ok) THEN
            /\ Goto(r, error(mainNext("checkExistingDeployment")),
                    {"error: failed to fetch deployments"})
            /\ UNCHANGED existingDeployment
          ELSE
            /\ existingDeployment' =
                 [existingDeployment EXCEPT ![r] =
                    IF impl[r] = "ts"
                    THEN checkExistingDeployment(deployments, Config.branch)
                    ELSE check_existing_deployment(
                           IF ok THEN deployments ELSE <<>>, Config.branch)]
            /\ Goto(r, mainNext("checkExistingDeployment"), {})
  /\ UNCHANGED <<env, platformVars, impl, envVarId, envsSeen, startedAfter, envs0, sel>>

GetEnvVarId_Call(r) ==
  /\ pc[r] = "getEnvVarId"
  /\ Issue(r, ListEnvVarsRequest(Config))
  /\ pc' = [pc EXCEPT ![r] = "awaitEnvVars"]
  /\ UNCHANGED <<env, platformVars, impl, existingDeployment, envVarId, envsSeen,
                 logged, exitCode, startedAfter, envs0, sel>>

GetEnvVarId_Return(r) ==
  /\ pc[r] = "awaitEnvVars"
  /\ \E ok \in BOOLEAN :
       /\ Settle(r, ok)
       /\ IF FailureSeen(impl[r], ok) THEN
            /\ Goto(r, error(mainNext("getEnvVarId")),
                    {"error: failed to fetch environment variables"})
            /\ UNCHANGED <<envVarId, envsSeen>>
          ELSE
            /\ envsSeen' = [envsSeen EXCEPT ![r] = IF ok THEN envs ELSE <<>>]
            /\ envVarId' =
                 [envVarId EXCEPT ![r] =
                    IF impl[r] = "ts"
                    THEN getEnvVarId(envs)
                    ELSE get_env_var_id(IF ok THEN envs ELSE <<>>)]
            /\ Goto(r, mainNext("getEnvVarId"), {})
  /\ UNCHANGED <<env, platformVars, impl, existingDeployment, startedAfter, envs0, sel>>

\* if (!envVarId) create ... else edit ...
UpdateEnvVar_Call(r) ==
  /\ pc[r] = "updateEnvVar"
  /\ IF envVarId[r] = NoText THEN
       /\ Issue(r, CreateEnvVarRequest(Config))
       /\ logged' = [logged EXCEPT ![r] = @ \cup {"warn: VITE_API_URL not found, creating"}]
     ELSE
       /\ Issue(r, UpdateEnvVarRequest(Config, envVarId[r]))
       /\ UNCHANGED logged
  /\ pc' = [pc EXCEPT ![r] = "awaitUpsert"]
  /\ UNCHANGED <<env, platformVars, impl, existingDeployment, envVarId, envsSeen,
                 exitCode, startedAfter, envs0, sel>>

\* the platform: a create appends a record under a fresh id (refused once
\* the project holds MaxEnvVars records), an update rewrites the record with
\* the addressed id and fails when there is none
CanSucceed(req) ==
  CASE req.op = "createEnvVar" -> Len(envs) < MaxEnvVars
    [] req.op = "updateEnvVar" -> \E i \in 1..Len(envs) : <<envs[i].id>> = req.id
    [] req.op = "redeploy" -> \E i \in 1..Len(deployments) : <<deployments[i].uid>> = req.id
    [] OTHER -> TRUE

Outcomes(req) == IF CanSucceed(req) THEN BOOLEAN ELSE {FALSE}

ApplyUpsert(req) ==
  IF req.op = "createEnvVar" THEN
    /\ envs' = Append(envs, EnvVar(EnvId(nextEnvId), req.key, req.value))
    /\ nextEnvId' = nextEnvId + 1
  ELSE
    /\ envs' = [i \in 1..Len(envs) |->
                  IF <<envs[i].id>> = req.id
                  THEN [envs[i] EXCEPT !.key = req.key, !.value = req.value]
                  ELSE envs[i]]
    /\ UNCHANGED nextEnvId

UpdateEnvVar_Return(r) ==
  /\ pc[r] = "awaitUpsert"
  /\ \E ok \in Outcomes(LastCall(r)) :
       /\ Settle(r, ok)
       /\ IF ok THEN ApplyUpsert(LastCall(r)) ELSE UNCHANGED <<envs, nextEnvId>>
       /\ IF FailureSeen(impl[r], ok) THEN
            Goto(r, updateEnvVarCatch(impl[r]),
                 {"error: failed to update environment variable"})
          ELSE
            Goto(r, mainNext("updateEnvVar"), {"info: VITE_API_URL created or updated"})
  /\ UNCHANGED <<env, deployments, impl, existingDeployment, envVarId, envsSeen,
                 startedAfter, envs0, sel>>

RedeployExisting_Call(r) ==
  /\ pc[r] = "deploy"
  /\ deployBranch(existingDeployment[r]) = "redeploy"
  /\ Issue(r, RedeployRequest(existingDeployment[r]))
  /\ pc' = [pc EXCEPT ![r] = "awaitRedeploy"]
  /\ logged' = [logged EXCEPT ![r] = @ \cup {"info: found existing deployment"}]
  /\ UNCHANGED <<env, platformVars, impl, existingDeployment, envVarId, envsSeen,
                 exitCode, startedAfter, envs0, sel>>

RedeployExisting_Return(r) ==
  /\ pc[r] = "awaitRedeploy"
  /\ \E ok \in Outcomes(LastCall(r)) :
       /\ Settle(r, ok)
       /\ IF FailureSeen(impl[r], ok) THEN
            IF ~validateEnvironment(env) THEN
              Goto(r, error("createDeployment"),
                   {"warn: failed to redeploy, creating new one instead",
                    "error: missing required environment variable"})
            ELSE
              Goto(r, redeployExistingCatch(impl[r]),
                   {"warn: failed to redeploy, creating new one instead"})
          ELSE
            Goto(r, "finish", {"info: redeployment triggered"})
  /\ UNCHANGED <<env, platformVars, impl, existingDeployment, envVarId, envsSeen,
                 startedAfter, envs0, sel>>

CreateDeployment_Call(r) ==
  /\ \/ pc[r] = "createDeployment"
     \/ pc[r] = "deploy" /\ deployBranch(existingDeployment[r]) = "create"
  /\ Issue(r, CreateDeploymentRequest(Config))
  /\ pc' = [pc EXCEPT ![r] = "awaitCreate"]
  /\ logged' = [logged EXCEPT ![r] = @ \cup
                  (IF pc[r] = "deploy" THEN {"info: no existing deployment found"} ELSE {})]
  /\ UNCHANGED <<env, platformVars, impl, existingDeployment, envVarId, envsSeen,
                 exitCode, startedAfter, envs0, sel>>

CreateDeployment_Return(r) ==
  /\ pc[r] = "awaitCreate"
  /\ \E ok \in Outcomes(LastCall(r)) :
       /\ Settle(r, ok)
       /\ IF FailureSeen(impl[r], ok) THEN
            Goto(r, createDeploymentCatch(impl[r]),
                 {"error: failed to create new deployment"})
          ELSE
            Goto(r, "finish", {"info: deployment triggered"})
  /\ UNCHANGED <<env, platformVars, impl, existingDeployment, envVarId, envsSeen,
                 startedAfter, envs0, sel>>

Next ==
  \E r \in Runs :
    \/ Main_Start(r)
    \/ CheckExistingDeployment_Call(r)
    \/ CheckExistingDeployment_Return(r)
    \/ GetEnvVarId_Call(r)
    \/ GetEnvVarId_Return(r)
    \/ UpdateEnvVar_Call(r)
    \/ UpdateEnvVar_Return(r)
    \/ RedeployExisting_Call(r)
    \/ RedeployExisting_Return(r)
    \/ CreateDeployment_Call(r)
    \/ CreateDeployment_Return(r)

Spec == Init /\ [][Next]_vars

\* ------------------------------ the selection function on drawn inputs
SelectNames == {NoText, <<"A">>, <<"x", "a", "B">>}
SelectRefs == {NoText, <<"a">>, <<"A">>}
SelectBranches == {<<"a">>, <<"A">>, <<"a", "b">>}
SelectShapes == SelectNames \X SelectRefs \X States
SelectListings == {WithUids(s) : s \in SeqsUpTo(SelectShapes, MaxDeployments)}

InitSelect ==
  /\ env = [VERCEL_TOKEN |-> SetTo(<<"x">>), VERCEL_PROJECT_ID |-> SetTo(<<"x">>),
            VERCEL_ORG_ID |-> SetTo(<<"x">>), FE_BRANCH |-> SetTo(<<"a">>)]
  /\ deployments = <<>>
  /\ envs = <<>>
  /\ nextEnvId = 1
  /\ envs0 = <<>>
  /\ InitRuns
  /\ sel \in [L : SelectListings, branch : SelectBranches, impl : Impls,
               out : {NoText}, done : {FALSE}]

\* step 1 of either implementation applied to the listing sel.L
ApplySelect ==
  /\ ~sel.done
  /\ sel' = [sel EXCEPT
               !.out = IF sel.impl = "ts"
                       THEN checkExistingDeployment(sel.L, sel.branch)
                       ELSE check_existing_deployment(sel.L, sel.branch),
               !.done = TRUE]
  /\ UNCHANGED <<env, platformVars, runVars, envs0>>

NextSelect == ApplySelect

SpecSelect == InitSelect /\ [][NextSelect]_vars

\* =========================================================== properties
ListOps == {"listDeployments", "listEnvVars"}
UpsertOps == {"createEnvVar", "updateEnvVar"}
DeployOps == {"redeploy", "createDeployment"}

Indices(r, ops) == {k \in 1..Len(calls[r]) : calls[r][k].op \in ops}
Failed(r, ops) == {k \in Indices(r, ops) : calls[r][k].status = "failed"}
Succeeded(r, ops) == {k \in Indices(r, ops) : calls[r][k].status = "ok"}
Ended(r) == pc[r] = "exited"
Completed == "info: completed successfully"

\* the inputs as the specification speaks of them
InputMissing(name) == ~env[name].set \/ Len(env[name].val) = 0
Branch == env["FE_BRANCH"].val
ProjectId == env["VERCEL_PROJECT_ID"].val
TargetUrl == <<"https://api.pr-">> \o Branch \o <<".deploy-preview.mrdibre.com">>
PrName == <<"p", "r", "-">> \o Branch

\* C1: when one of the four required inputs is absent or empty, a run ends
\* with a non-zero exit status and never issues a remote request.
C1_MissingInputAbortsBeforeAnyCall ==
  (\E n \in {"VERCEL_TOKEN", "VERCEL_PROJECT_ID", "VERCEL_ORG_ID", "FE_BRANCH"} :
     InputMissing(n))
  => \A r \in Runs :
       /\ calls[r] = <<>>
       /\ pc[r] \in {"idle", "exited"}
       /\ (Ended(r) => exitCode[r] = 1 /\ Completed \notin logged[r])

\* Scenario E: only the branch is missing, and runs of both implementations
\* have ended with status 1
C1_Witness ==
  /\ InputMissing("FE_BRANCH")
  /\ ~InputMissing("VERCEL_TOKEN")
  /\ ~InputMissing("VERCEL_PROJECT_ID")
  /\ ~InputMissing("VERCEL_ORG_ID")
  /\ \E r, q \in Runs :
       /\ impl[r] = "ts" /\ impl[q] = "sh"
       /\ Ended(r) /\ Ended(q)
       /\ exitCode[r] = 1 /\ exitCode[q] = 1

\* C2: a failed list-deployments or list-environment-variables call ends
\* the run at once with a non-zero exit status: the failed call is the last
\* request of the run (so a failed deployment listing never leads to the
\* create-new path).
C2_LookupFailureIsFatal ==
  \A r \in Runs : \A k \in Failed(r, ListOps) :
    /\ k = Len(calls[r])
    /\ Ended(r)
    /\ exitCode[r] = 1

\* C2, restricted to the runs of vercel-deploy.ts
C2_TypeScript ==
  \A r \in Runs : impl[r] = "ts" =>
    \A k \in Failed(r, ListOps) :
      k = Len(calls[r]) /\ Ended(r) /\ exitCode[r] = 1

C2_TypeScript_Witness ==
  \E r \in Runs : impl[r] = "ts" /\ Failed(r, {"listEnvVars"}) # {} /\ Ended(r)

C4_RedeployFailureFallsBack ==
  \A r \in Runs :
    (Ended(r) /\ Failed(r, {"redeploy"}) # {} /\ Failed(r, ListOps) = {}) =>
      /\ Cardinality(Indices(r, {"createDeployment"})) = 1
      /\ \A k \in Indices(r, {"createDeployment"}) :
           /\ calls[r][k].name = PrName
           /\ calls[r][k].ref = Branch
           /\ calls[r][k].project = ProjectId
           /\ (calls[r][k].status = "ok" => exitCode[r] = 0 /\ Completed \in logged[r])

\* C4, restricted to the runs of vercel-deploy.ts
C4_TypeScript ==
  \A r \in Runs : impl[r] = "ts" =>
    ((Ended(r) /\ Failed(r, {"redeploy"}) # {}) =>
      /\ Cardinality(Indices(r, {"createDeployment"})) = 1
      /\ \A k \in Indices(r, {"createDeployment"}) :
           /\ calls[r][k].name = PrName
           /\ calls[r][k].ref = Branch
           /\ calls[r][k].project = ProjectId
           /\ (calls[r][k].status = "ok" => exitCode[r] = 0 /\ Completed \in logged[r]))

C4_TypeScript_Witness ==
  \E r \in Runs :
    /\ impl[r] = "ts" /\ Failed(r, {"redeploy"}) # {}
    /\ Succeeded(r, {"createDeployment"}) # {} /\ exitCode[r] = 0

\* C5: a failed create-new request ends the run with a non-zero exit status
\* and without the success message, whether the request was the first
\* deployment request of the run or the fallback of a failed redeploy.
C5_CreateFailureIsFatal ==
  \A r \in Runs : \A k \in Failed(r, {"createDeployment"}) :
    /\ k = Len(calls[r])
    /\ Ended(r)
    /\ exitCode[r] = 1
    /\ Completed \notin logged[r]

\* a create-new request that was the fallback of a failed redeploy failed
C5_Witness ==
  \E r \in Runs :
    /\ Failed(r, {"redeploy"}) # {}
    /\ Failed(r, {"createDeployment"}) # {}
    /\ Ended(r)

\* a create-new request issued directly (nothing selected) failed
C5_WitnessDirect ==
  \E r \in Runs :
    /\ Indices(r, {"redeploy"}) = {}
    /\ Failed(r, {"createDeployment"}) # {}
    /\ Ended(r)

\* the selection as the specification states it (section 8)
SameLetter(c, d) == c = d \/ {c, d} = {"a", "A"} \/ {c, d} = {"b", "B"}
ContainsIgnoringCase(s, t) ==
  \E p \in 0..(Len(s) - Len(t)) : \A k \in 1..Len(t) : SameLetter(s[p + k], t[k])
Qualifies(d, b) ==
  /\ d.ref = b \/ ContainsIgnoringCase(d.name, b)
  /\ d.state \in {"READY", "BUILDING"}
Qualifying(L, b) == {i \in 1..Len(L) : Qualifies(L[i], b)}
FirstQualifying(L, b) ==
  IF Qualifying(L, b) = {} THEN 0
  ELSE CHOOSE i \in Qualifying(L, b) : \A j \in Qualifying(L, b) : i <= j
Expected(L, b) ==
  IF FirstQualifying(L, b) = 0 THEN NoText ELSE <<L[FirstQualifying(L, b)].uid>>

\* the first deployment request of a run whose deployment listing succeeded
FirstDeployIndex(r) ==
  {k \in Indices(r, DeployOps) :
     /\ \A j \in Indices(r, DeployOps) : k <= j
     /\ Succeeded(r, {"listDeployments"}) # {}}

\* C6: the first deployment request of a run is a redeploy carrying the id
\* of the first qualifying deployment of the listing when there is one, and
\* otherwise a create-new request named pr-<branch> for the project.
C6_FirstDeploymentRequest ==
  \A r \in Runs : \A k \in FirstDeployIndex(r) :
    IF FirstQualifying(deployments, Branch) # 0 THEN
      /\ calls[r][k].op = "redeploy"
      /\ calls[r][k].id = Expected(deployments, Branch)
    ELSE
      /\ calls[r][k].op = "createDeployment"
      /\ calls[r][k].name = PrName
      /\ calls[r][k].project = ProjectId

\* C6, restricted to the runs of vercel-deploy.ts
C6_TypeScript ==
  \A r \in Runs : impl[r] = "ts" =>
    \A k \in FirstDeployIndex(r) :
      IF FirstQualifying(deployments, Branch) # 0 THEN
        /\ calls[r][k].op = "redeploy"
        /\ calls[r][k].id = Expected(deployments, Branch)
      ELSE
        /\ calls[r][k].op = "createDeployment"
        /\ calls[r][k].name = PrName
        /\ calls[r][k].project = ProjectId

\* Scenario C: the only deployment matches the branch but is in state ERROR
C6_TypeScript_Witness ==
  \E r \in Runs :
    /\ impl[r] = "ts" /\ Indices(r, {"createDeployment"}) # {}
    /\ Len(deployments) = 1 /\ deployments[1].state = "ERROR"
    /\ deployments[1].ref = Branch

\* C7: step 1 yields the uid of the first deployment of the listing whose
\* branch equals the target branch or whose name contains it ignoring case,
\* and whose state is READY or BUILDING; it yields none exactly when no
\* deployment of the listing qualifies.
C7_SelectsFirstQualifying ==
  sel.done =>
    /\ sel.out = Expected(sel.L, sel.branch)
    /\ (sel.out = NoText <=> Qualifying(sel.L, sel.branch) = {})

\* C7, restricted to checkExistingDeployment of vercel-deploy.ts
C7_TypeScript ==
  (sel.done /\ sel.impl = "ts") =>
    /\ sel.out = Expected(sel.L, sel.branch)
    /\ (sel.out = NoText <=> Qualifying(sel.L, sel.branch) = {})

\* the second of two qualifying deployments is passed over for the first,
\* which qualifies by its name only
C7_TypeScript_Witness ==
  /\ sel.done /\ sel.impl = "ts"
  /\ Qualifying(sel.L, sel.branch) = {1, 2}
  /\ sel.L[1].ref # sel.branch
  /\ sel.out = <<sel.L[1].uid>>

ViteRecords(E) == {i \in 1..Len(E) : E[i].key = EnvKey}

\* q ran after r: r started first and had ended when q started
RanInTurn(r, q) == r # q /\ startedAfter[r] = {} /\ r \in startedAfter[q]
\* both ended with status 0, and neither had a listing call fail
BothSucceeded(r, q) ==
  /\ Ended(r) /\ Ended(q)
  /\ exitCode[r] = 0 /\ exitCode[q] = 0
  /\ Failed(r, ListOps) = {} /\ Failed(q, ListOps) = {}

\* C8: from a project without VITE_API_URL, two successful runs in turn
\* leave exactly one VITE_API_URL record, holding the target URL; the first
\* run issued a create request and the second an update request addressed
\* to the record the first one created.
C8_UpsertIdempotentAcrossRuns ==
  \A r, q \in Runs :
    (RanInTurn(r, q) /\ BothSucceeded(r, q) /\ ViteRecords(envs0) = {}) =>
      /\ Cardinality(ViteRecords(envs)) = 1
      /\ \A i \in ViteRecords(envs) :
           /\ envs[i].value = TargetUrl
           /\ \A k \in Indices(q, UpsertOps) :
                calls[q][k].op = "updateEnvVar" /\ calls[q][k].id = <<envs[i].id>>
      /\ \A k \in Indices(r, UpsertOps) : calls[r][k].op = "createEnvVar"
      /\ Indices(r, UpsertOps) # {} /\ Indices(q, UpsertOps) # {}

\* C8, restricted to two runs of vercel-deploy.ts
C8_TypeScript ==
  \A r, q \in Runs :
    (/\ impl[r] = "ts" /\ impl[q] = "ts"
     /\ RanInTurn(r, q) /\ BothSucceeded(r, q) /\ ViteRecords(envs0) = {}) =>
      /\ Cardinality(ViteRecords(envs)) = 1
      /\ \A i \in ViteRecords(envs) :
           /\ envs[i].value = TargetUrl
           /\ \A k \in Indices(q, UpsertOps) :
                calls[q][k].op = "updateEnvVar" /\ calls[q][k].id = <<envs[i].id>>
      /\ \A k \in Indices(r, UpsertOps) : calls[r][k].op = "createEnvVar"
      /\ Indices(r, UpsertOps) # {} /\ Indices(q, UpsertOps) # {}

C8_TypeScript_Witness ==
  \E r, q \in Runs :
    /\ impl[r] = "ts" /\ impl[q] = "ts"
    /\ RanInTurn(r, q) /\ BothSucceeded(r, q)
    /\ envs0 # <<>> /\ ViteRecords(envs0) = {}

\* C9: the requests of a run come in the order list-deployments,
\* list-env-vars, upsert, deployment request(s); a request is issued only
\* when every earlier request of the run has returned, so no deployment
\* request precedes the return of the upsert and no earlier step is entered
\* again, the redeploy fallback included.
C9_FixedOrder ==
  \A r \in Runs : \A k \in 1..Len(calls[r]) :
    /\ (k = 1 => calls[r][k].op = "listDeployments")
    /\ (k = 2 => calls[r][k].op = "listEnvVars")
    /\ (k = 3 => calls[r][k].op \in UpsertOps)
    /\ (k >= 4 => calls[r][k].op \in DeployOps)
    /\ (k < Len(calls[r]) => calls[r][k].status # "pending")

\* a run went through the redeploy fallback: five requests, in order
C9_Witness ==
  \E r \in Runs :
    /\ Len(calls[r]) = 5
    /\ calls[r][4].op = "redeploy" /\ calls[r][5].op = "createDeployment"
    /\ calls[r][5].status = "pending"

\* C10: a run lists the deployments at most once, lists the environment
\* variables at most once and issues at most one create/update request; it
\* issues at most two deployment requests, the second of which is a
\* create-new request following a failed redeploy; at most one deployment
\* request of a run succeeds.
C10_NoRetries ==
  \A r \in Runs :
    /\ Cardinality(Indices(r, {"listDeployments"})) <= 1
    /\ Cardinality(Indices(r, {"listEnvVars"})) <= 1
    /\ Cardinality(Indices(r, UpsertOps)) <= 1
    /\ Cardinality(Indices(r, DeployOps)) <= 2
    /\ \A j, k \in Indices(r, DeployOps) :
         j < k => /\ calls[r][j].op = "redeploy"
                  /\ calls[r][j].status = "failed"
                  /\ calls[r][k].op = "createDeployment"
    /\ Cardinality(Succeeded(r, DeployOps)) <= 1

\* two deployment requests in one run, the second one successful
C10_Witness ==
  \E r \in Runs :
    /\ Cardinality(Indices(r, DeployOps)) = 2
    /\ Succeeded(r, {"createDeployment"}) # {}
    /\ Ended(r)

\* the first VITE_API_URL entry of a listing, as the specification states it
FirstVite(E) ==
  IF ViteRecords(E) = {} THEN 0
  ELSE CHOOSE i \in ViteRecords(E) : \A j \in ViteRecords(E) : i <= j
ExpectedEnvId(E) == IF FirstVite(E) = 0 THEN NoText ELSE <<E[FirstVite(E)].id>>

\* the runs whose listing of the environment variables has come back
Listed(r) == Succeeded(r, {"listEnvVars"}) # {}

UpsertAsStated(r, k) ==
  /\ IF ExpectedEnvId(envsSeen[r]) # NoText
     THEN calls[r][k].op = "updateEnvVar" /\ calls[r][k].id = ExpectedEnvId(envsSeen[r])
     ELSE calls[r][k].op = "createEnvVar"
  /\ calls[r][k].key = "VITE_API_URL"
  /\ calls[r][k].value = TargetUrl
  /\ calls[r][k].type = "plain"
  /\ calls[r][k].target = <<"preview">>

\* C11: step 2 yields the id of the first entry of the returned listing
\* whose key is VITE_API_URL, and none when there is no such entry; step 3
\* sends an update addressed to that id when one was found and a create
\* exactly when none was found, both with the target URL as value, type
\* plain and target [preview].
C11_UpsertFollowsLookup ==
  \A r \in Runs : Listed(r) =>
    /\ envVarId[r] = ExpectedEnvId(envsSeen[r])
    /\ \A k \in Indices(r, UpsertOps) : UpsertAsStated(r, k)

\* C11, restricted to the runs of vercel-deploy.ts
C11_TypeScript ==
  \A r \in Runs : (impl[r] = "ts" /\ Listed(r)) =>
    /\ envVarId[r] = ExpectedEnvId(envsSeen[r])
    /\ \A k \in Indices(r, UpsertOps) : UpsertAsStated(r, k)

\* the listing holds another variable before VITE_API_URL and the update
\* went to the second entry
C11_TypeScript_Witness ==
  \E r \in Runs :
    /\ impl[r] = "ts" /\ Listed(r)
    /\ FirstVite(envsSeen[r]) = 2
    /\ Succeeded(r, {"updateEnvVar"}) # {}

\* the listing held nothing under VITE_API_URL and a create was sent
C11_TypeScript_WitnessCreate ==
  \E r \in Runs :
    /\ impl[r] = "ts" /\ Listed(r)
    /\ envsSeen[r] # <<>> /\ FirstVite(envsSeen[r]) = 0
    /\ Indices(r, {"createEnvVar"}) # {}

\* C12: the project never holds more than one VITE_API_URL variable, also
\* when the steps of two runs interleave.
C12_AtMostOneViteRecord == Cardinality(ViteRecords(envs)) <= 1

\* the runs did not overlap: one has not started, or one ran after the other
NoOverlap ==
  \/ \E r \in Runs : pc[r] = "idle"
  \/ \E r, q \in Runs : RanInTurn(r, q)

\* C12, restricted to runs that do not overlap
C12_RunsInTurn == NoOverlap => Cardinality(ViteRecords(envs)) <= 1

\* two runs of vercel-deploy.ts in turn, the first created the variable and
\* the second updated it
C12_RunsInTurn_Witness ==
  \E r, q \in Runs :
    /\ RanInTurn(r, q)
    /\ Succeeded(r, {"createEnvVar"}) # {}
    /\ Succeeded(q, {"updateEnvVar"}) # {}

\* C13: a run of vercel-deploy.ts that reports "completed successfully"
\* (and ends with status 0) had both listing calls succeed, had its create
\* or update request succeed with the target URL as value, and had exactly
\* one deployment request succeed; the only requests of such a run that may
\* have failed are redeploy requests.
C13_SuccessMeansEveryStepSucceeded ==
  \A r \in Runs :
    (impl[r] = "ts" /\ (Completed \in logged[r] \/ exitCode[r] = 0)) =>
      /\ Completed \in logged[r] /\ exitCode[r] = 0
      /\ Succeeded(r, {"listDeployments"}) # {}
      /\ Succeeded(r, {"listEnvVars"}) # {}
      /\ Cardinality(Succeeded(r, UpsertOps)) = 1
      /\ \A k \in Succeeded(r, UpsertOps) : calls[r][k].value = TargetUrl
      /\ Cardinality(Succeeded(r, DeployOps)) = 1
      /\ \A k \in 1..Len(calls[r]) :
           calls[r][k].status = "ok" \/ calls[r][k].op = "redeploy"

\* a run of vercel-deploy.ts reported success after its redeploy request
\* had failed and the create-new request had succeeded
C13_Witness ==
  \E r \in Runs :
    /\ impl[r] = "ts" /\ Completed \in logged[r] /\ exitCode[r] = 0
    /\ Failed(r, {"redeploy"}) # {}
    /\ Succeeded(r, {"createDeployment"}) # {}

\* ------------------------------------------------ the two implementations
\* the requests of a run in the order sent, without the platform's answers
Sent(r) == [k \in 1..Len(calls[r]) |-> [calls[r][k] EXCEPT !.status = "pending"]]

Shorter(r, q) == IF Len(calls[r]) <= Len(calls[q]) THEN Len(calls[r]) ELSE Len(calls[q])

\* the platform answered the two runs alike: the same listing of variables,
\* and the same outcome wherever both had sent the same requests so far
SameResponses(r, q) ==
  /\ envsSeen[r] = envsSeen[q]
  /\ \A k \in 1..Shorter(r, q) :
       SubSeq(Sent(r), 1, k) = SubSeq(Sent(q), 1, k) =>
         calls[r][k].status = calls[q][k].status

\* C14: vercel-deploy.ts and vercel.sh are the same procedure: with the same
\* configuration and the same answers of the platform, a finished run of
\* each has sent the same requests with the same payloads in the same
\* order, has taken the same redeploy-or-create decision, and has ended
\* with the same class of exit status (zero or non-zero).
C14_SameProcedure ==
  \A r, q \in Runs :
    ( /\ impl[r] = "ts" /\ impl[q] = "sh"
      /\ Ended(r) /\ Ended(q)
      /\ "error: jq is required" \notin logged[q]
      /\ SameResponses(r, q) ) =>
        /\ Sent(r) = Sent(q)
        /\ deployBranch(existingDeployment[r]) = deployBranch(existingDeployment[q])
        /\ (exitCode[r] = 0) <=> (exitCode[q] = 0)

\* C14, first request only: both implementations begin with the same
\* listing of deployments
C14_SameFirstRequest ==
  \A r, q \in Runs :
    (impl[r] = "ts" /\ impl[q] = "sh" /\ calls[r] # <<>> /\ calls[q] # <<>>) =>
      Sent(r)[1] = Sent(q)[1]

C14_SameFirstRequest_Witness ==
  \E r, q \in Runs :
    /\ impl[r] = "ts" /\ impl[q] = "sh" /\ Ended(r) /\ Ended(q)
    /\ SameResponses(r, q)
    /\ Len(calls[r]) = 4 /\ Len(calls[q]) = 4

====
